---- MODULE Spec2Model ----
(***************************************************************************)
(* Model of src/targets/node/subprocessProgramLauncher.ts:                 *)
(*   - formatArguments, the Windows argument normaliser (pure function);   *)
(*   - SubprocessProgramLauncher.launchProgram, which echoes the command,  *)
(*     spawns the child and attaches captureStdio or discardStdio;         *)
(*   - the listeners those two methods register on the child process.      *)
(* Strings are TLA+ strings; Buffers are tuples of byte values.            *)
(***************************************************************************)
EXTENDS Integers, Sequences, FiniteSets, TLC

VARIABLES
  platform,        \* process.platform
  binary,          \* launchProgram's `binary` parameter
  config,          \* launchProgram's `config` parameter
  pc,              \* "idle" until launchProgram / formatArguments has run
  invocation,      \* <<>>, then <<t>> with t the tuple formatArguments returned
  routers,         \* the stdio routers launchProgram has called, in order
  stdoutListeners, \* 'data' listeners on child.stdout
  stderrListeners, \* 'data' listeners on child.stderr
  errorListeners,  \* 'error' listeners on child
  exitListeners,   \* 'exit' listeners on child
  stdoutFlowing,   \* child.stdout.resume() was called
  stderrFlowing,   \* child.stderr.resume() was called
  preLaunchBuffer, \* discardStdio's closure variable: <<chunks>> or Undefined
  trackerPending,  \* bytes each StdStreamTracker holds back (line not complete)
  sink,            \* events passed to dap.output, in order
  stderrEmitted,   \* chunks child.stderr has emitted, in order (environment)
  stderrSeen,      \* chunks errLineReader has been called with, in order
  stdoutEmitted,   \* number of chunks child.stdout has emitted (environment)
  exits,           \* codes of the 'exit' events the child has emitted
  errors,          \* error objects of the 'error' events the child has emitted
  canLaunchResult  \* <<>>, then <<b>> with b the value canLaunch returned

vars == <<platform, binary, config, pc, invocation, routers, stdoutListeners,
          stderrListeners, errorListeners, exitListeners, stdoutFlowing,
          stderrFlowing, preLaunchBuffer, trackerPending, sink, stderrEmitted,
          stderrSeen, stdoutEmitted, exits, errors, canLaunchResult>>

-----------------------------------------------------------------------------
(* Bounds of the model.                                                    *)

MaxEvents == 4      \* events ('data', 'error', 'exit') the child delivers
MaxArgs == 2        \* length of the argument list given to formatArguments

-----------------------------------------------------------------------------
(* JavaScript string primitives.                                           *)

\* String.prototype.includes / Buffer.prototype.includes: s contains m.
Includes(s, m) ==
  \E i \in 1..(Len(s) - Len(m) + 1) : SubSeq(s, i, i + Len(m) - 1) = m

\* String.prototype.endsWith.
EndsWith(s, m) ==
  /\ Len(s) >= Len(m)
  /\ SubSeq(s, Len(s) - Len(m) + 1, Len(s)) = m

\* The template literal `"${a}"`.
Quote(a) == "\"" \o a \o "\""

\* Array.prototype.join.
RECURSIVE Join(_, _)
Join(list, sep) ==
  IF Len(list) = 0 THEN ""
  ELSE IF Len(list) = 1 THEN list[1]
  ELSE list[1] \o sep \o Join(Tail(list), sep)

\* Number-to-string conversion of a template literal, decimal.
Digits == <<"0", "1", "2", "3", "4", "5", "6", "7", "8", "9">>

RECURSIVE NatToString(_)
NatToString(n) ==
  IF n < 10 THEN Digits[n + 1]
  ELSE NatToString(n \div 10) \o Digits[(n % 10) + 1]

NumberToString(n) == IF n < 0 THEN "-" \o NatToString(-n) ELSE NatToString(n)

\* Printable ASCII: code points 32..95 and 97..126 in order (96 is not used).
AsciiLow == " !\"#$%&'()*+,-./0123456789:;<=>?@ABCDEFGHIJKLMNOPQRSTUVWXYZ[\\]^_"

AsciiHigh == "abcdefghijklmnopqrstuvwxyz{|}~"

\* String.prototype.charCodeAt(0) of a one-character string.
CharCode(c) ==
  IF c = "\n" THEN 10
  ELSE IF c = "\r" THEN 13
  ELSE IF \E i \in 1..Len(AsciiLow) : SubSeq(AsciiLow, i, i) = c
  THEN 31 + (CHOOSE i \in 1..Len(AsciiLow) : SubSeq(AsciiLow, i, i) = c)
  ELSE 96 + (CHOOSE i \in 1..Len(AsciiHigh) : SubSeq(AsciiHigh, i, i) = c)

\* String.fromCharCode.
FromCharCode(b) ==
  IF b = 10 THEN "\n"
  ELSE IF b = 13 THEN "\r"
  ELSE IF b <= 95 THEN SubSeq(AsciiLow, b - 31, b - 31)
  ELSE SubSeq(AsciiHigh, b - 96, b - 96)

\* String.prototype.toUpperCase on one character.
ToUpperCase(c) ==
  IF CharCode(c) >= 97 /\ CharCode(c) <= 122 THEN FromCharCode(CharCode(c) - 32)
  ELSE c

-----------------------------------------------------------------------------
(* Buffers: tuples of bytes.                                               *)

\* Buffer.from(string): the UTF-8 bytes of an ASCII string.
BufferFrom(s) == [i \in 1..Len(s) |-> CharCode(SubSeq(s, i, i))]

\* Buffer.prototype.toString(): decode the bytes as text.
RECURSIVE BufferToString(_)
BufferToString(b) ==
  IF Len(b) = 0 THEN ""
  ELSE FromCharCode(b[1]) \o BufferToString(Tail(b))

\* Buffer.concat(list).
RECURSIVE BufferConcat(_)
BufferConcat(list) ==
  IF Len(list) = 0 THEN <<>>
  ELSE list[1] \o BufferConcat(Tail(list))

-----------------------------------------------------------------------------
(* The argument normaliser.                                                *)

\* urlUtils.platformPathToPreferredCase: on Windows the drive letter of a
\* path is upper-cased; everything else is left alone.
platformPathToPreferredCase(p) ==
  IF platform = "win32" /\ Len(p) >= 2 /\ SubSeq(p, 2, 2) = ":"
  THEN ToUpperCase(SubSeq(p, 1, 1)) \o SubSeq(p, 2, Len(p))
  ELSE p

\* formatArguments that enables the shell without quoting the executable.
formatArguments_UnquotedExecutable(executable, args, cwd) ==
  LET win  == platform = "win32"
      exe1 == IF win THEN platformPathToPreferredCase(executable) ELSE executable
      cwd1 == IF win THEN platformPathToPreferredCase(cwd) ELSE cwd
      ps1  == win /\ EndsWith(exe1, ".ps1")
      args2 == IF ps1 THEN <<"-File", exe1>> \o args ELSE args
      exe2 == IF ps1 THEN "powershell.exe" ELSE exe1
      output == [i \in 1..Len(args2) |->
                   IF Includes(args2[i], " ") THEN Quote(args2[i]) ELSE args2[i]]
      foundArgWithSpace == \E i \in 1..Len(args2) : Includes(args2[i], " ")
  IN  IF ~win \/ ~Includes(exe2, " ")
      THEN [executable |-> exe2, args |-> args2, shell |-> FALSE, cwd |-> cwd1]
      ELSE IF foundArgWithSpace
      THEN [executable |-> exe2, args |-> output, shell |-> TRUE, cwd |-> cwd1]
      ELSE [executable |-> exe2, args |-> args2, shell |-> FALSE, cwd |-> cwd1]

\* formatArguments that quotes whenever the executable contains a space.
formatArguments_AlwaysShell(executable, args, cwd) ==
  LET win  == platform = "win32"
      exe1 == IF win THEN platformPathToPreferredCase(executable) ELSE executable
      cwd1 == IF win THEN platformPathToPreferredCase(cwd) ELSE cwd
      ps1  == win /\ EndsWith(exe1, ".ps1")
      args2 == IF ps1 THEN <<"-File", exe1>> \o args ELSE args
      exe2 == IF ps1 THEN "powershell.exe" ELSE exe1
      output == [i \in 1..Len(args2) |->
                   IF Includes(args2[i], " ") THEN Quote(args2[i]) ELSE args2[i]]
      foundArgWithSpace == \E i \in 1..Len(args2) : Includes(args2[i], " ")
  IN  IF ~win \/ ~Includes(exe2, " ")
      THEN [executable |-> exe2, args |-> args2, shell |-> FALSE, cwd |-> cwd1]
      ELSE IF Includes(exe2, " ")
      THEN [executable |-> Quote(exe2), args |-> output, shell |-> TRUE, cwd |-> cwd1]
      ELSE [executable |-> exe2, args |-> args2, shell |-> FALSE, cwd |-> cwd1]

\* formatArguments that passes the script to powershell.exe without -File.
formatArguments_NoFileFlag(executable, args, cwd) ==
  LET win  == platform = "win32"
      exe1 == IF win THEN platformPathToPreferredCase(executable) ELSE executable
      cwd1 == IF win THEN platformPathToPreferredCase(cwd) ELSE cwd
      ps1  == win /\ EndsWith(exe1, ".ps1")
      args2 == IF ps1 THEN <<exe1>> \o args ELSE args
      exe2 == IF ps1 THEN "powershell.exe" ELSE exe1
      output == [i \in 1..Len(args2) |->
                   IF Includes(args2[i], " ") THEN Quote(args2[i]) ELSE args2[i]]
      foundArgWithSpace == \E i \in 1..Len(args2) : Includes(args2[i], " ")
  IN  IF ~win \/ ~Includes(exe2, " ")
      THEN [executable |-> exe2, args |-> args2, shell |-> FALSE, cwd |-> cwd1]
      ELSE IF foundArgWithSpace
      THEN [executable |-> Quote(exe2), args |-> output, shell |-> TRUE, cwd |-> cwd1]
      ELSE [executable |-> exe2, args |-> args2, shell |-> FALSE, cwd |-> cwd1]

\* formatArguments that routes .ps1 files through powershell.exe on every platform.
formatArguments_Ps1Everywhere(executable, args, cwd) ==
  LET win  == platform = "win32"
      exe1 == IF win THEN platformPathToPreferredCase(executable) ELSE executable
      cwd1 == IF win THEN platformPathToPreferredCase(cwd) ELSE cwd
      ps1  == EndsWith(exe1, ".ps1")
      args2 == IF ps1 THEN <<"-File", exe1>> \o args ELSE args
      exe2 == IF ps1 THEN "powershell.exe" ELSE exe1
      output == [i \in 1..Len(args2) |->
                   IF Includes(args2[i], " ") THEN Quote(args2[i]) ELSE args2[i]]
      foundArgWithSpace == \E i \in 1..Len(args2) : Includes(args2[i], " ")
  IN  IF ~win \/ ~Includes(exe2, " ")
      THEN [executable |-> exe2, args |-> args2, shell |-> FALSE, cwd |-> cwd1]
      ELSE IF foundArgWithSpace
      THEN [executable |-> Quote(exe2), args |-> output, shell |-> TRUE, cwd |-> cwd1]
      ELSE [executable |-> exe2, args |-> args2, shell |-> FALSE, cwd |-> cwd1]

\* formatArguments that tests the executable for a space before the .ps1 rewrite.
formatArguments_SpaceCheckFirst(executable, args, cwd) ==
  LET win  == platform = "win32"
      exe1 == IF win THEN platformPathToPreferredCase(executable) ELSE executable
      cwd1 == IF win THEN platformPathToPreferredCase(cwd) ELSE cwd
      ps1  == win /\ EndsWith(exe1, ".ps1")
      args2 == IF ps1 THEN <<"-File", exe1>> \o args ELSE args
      exe2 == IF ps1 THEN "powershell.exe" ELSE exe1
      output == [i \in 1..Len(args2) |->
                   IF Includes(args2[i], " ") THEN Quote(args2[i]) ELSE args2[i]]
      foundArgWithSpace == \E i \in 1..Len(args2) : Includes(args2[i], " ")
  IN  IF ~win \/ ~Includes(exe1, " ")
      THEN [executable |-> exe2, args |-> args2, shell |-> FALSE, cwd |-> cwd1]
      ELSE IF foundArgWithSpace
      THEN [executable |-> Quote(exe2), args |-> output, shell |-> TRUE, cwd |-> cwd1]
      ELSE [executable |-> exe2, args |-> args2, shell |-> FALSE, cwd |-> cwd1]

formatArguments(executable, args, cwd) ==
  LET win  == platform = "win32"
      exe1 == IF win THEN platformPathToPreferredCase(executable) ELSE executable
      cwd1 == IF win THEN platformPathToPreferredCase(cwd) ELSE cwd
      ps1  == win /\ EndsWith(exe1, ".ps1")
      args2 == IF ps1 THEN <<"-File", exe1>> \o args ELSE args
      exe2 == IF ps1 THEN "powershell.exe" ELSE exe1
      output == [i \in 1..Len(args2) |->
                   IF Includes(args2[i], " ") THEN Quote(args2[i]) ELSE args2[i]]
      foundArgWithSpace == \E i \in 1..Len(args2) : Includes(args2[i], " ")
  IN  IF ~win \/ ~Includes(exe2, " ")
      THEN [executable |-> exe2, args |-> args2, shell |-> FALSE, cwd |-> cwd1]
      ELSE IF foundArgWithSpace
      THEN [executable |-> Quote(exe2), args |-> output, shell |-> TRUE, cwd |-> cwd1]
      ELSE [executable |-> exe2, args |-> args2, shell |-> FALSE, cwd |-> cwd1]

-----------------------------------------------------------------------------
(* Values of the configuration and of the child's events.                  *)

\* `T | undefined` and `T | null`: <<>> when absent, <<v>> when present.
Undefined == <<>>

Some(v) == <<v>>

\* OutputSource.Console, the outputCapture value that selects discardStdio.
OutputSourceConsole == "console"

\* The values of config.outputCapture.
OutputSources == {"console", "std"}

\* The values of config.console.
ConsoleModes == {"internalConsole", "integratedTerminal", "externalTerminal"}

\* getNodeLaunchArgs(config): the argument list expanded from the configuration.
getNodeLaunchArgs(c) == c.args

\* Executables, arguments and working directories formatArguments is applied to.
Executables ==
  {"C:\\a b\\x.exe", "c:\\a b\\x.exe", "C:\\x.exe", "c:\\s.ps1",
   "C:\\a b\\s.ps1", "/usr/bin/node", "/opt/my app/node"}

ArgPool == {"--flag", "my arg", "x.js"}

ArgLists == UNION {[1..n -> ArgPool] : n \in 0..MaxArgs}

Cwds == {"c:\\w", "/w"}

\* Launches whose stdio is followed event by event.
LaunchPlatforms == {"win32"}

LaunchBinaries == {"C:\\a b\\x.exe"}

LaunchArgLists == {<<"my arg">>}

\* Buffer.from('Debugger attached.')
delimiter == BufferFrom("Debugger attached.")

\* Chunks child.stdout delivers.
StdoutChunks == {BufferFrom("ready\n")}

\* Chunks child.stderr delivers.
Chunks ==
  {BufferFrom("starting..."), BufferFrom("Debugger attached."),
   BufferFrom("late noise"), BufferFrom("Debugger "), BufferFrom("attached."),
   BufferFrom("ok Debugger attached.\n")}

\* Error objects of the child's 'error' event; an absent stack is "".
Errors ==
  {[stack |-> "Error: spawn node ENOENT", message |-> "spawn node ENOENT"],
   [stack |-> "", message |-> "kill EPERM"]}

\* Codes of the child's 'exit' event; Undefined stands for null.
ExitCodes == {Undefined, Some(-1), Some(0), Some(1), Some(12)}

-----------------------------------------------------------------------------
(* StdStreamTracker, the capture path's per-stream line splitter.          *)

FirstNewline(b) ==
  IF \E i \in 1..Len(b) : b[i] = 10
  THEN CHOOSE i \in 1..Len(b) : b[i] = 10 /\ \A j \in 1..(i - 1) : b[j] # 10
  ELSE 0

RECURSIVE CompleteLines(_)
CompleteLines(b) ==
  IF FirstNewline(b) = 0 THEN <<>>
  ELSE <<SubSeq(b, 1, FirstNewline(b))>>
         \o CompleteLines(SubSeq(b, FirstNewline(b) + 1, Len(b)))

RECURSIVE IncompleteLine(_)
IncompleteLine(b) ==
  IF FirstNewline(b) = 0 THEN b
  ELSE IncompleteLine(SubSeq(b, FirstNewline(b) + 1, Len(b)))

\* StdStreamTracker.consumeStdStreamData for the tracker of `category`.
consumeStdStreamData(category, data) ==
  LET bytes == trackerPending[category] \o data
      lines == CompleteLines(bytes)
  IN  /\ sink' = sink \o [i \in 1..Len(lines) |->
                            [category |-> category, output |-> BufferToString(lines[i])]]
      /\ trackerPending' = [trackerPending EXCEPT ![category] = IncompleteLine(bytes)]

-----------------------------------------------------------------------------
(* The launcher.                                                           *)

\* canLaunch that accepts every console mode but the external terminal.
canLaunch_NotExternal(args) == args.console # "externalTerminal"

canLaunch(args) == args.console = "internalConsole"

\* captureStdio: two trackers, both streams resumed; no 'error'/'exit' listener.
captureStdio ==
  /\ routers' = Append(routers, "captureStdio")
  /\ stdoutListeners' = stdoutListeners \cup {"stdOutTracker"}
  /\ stderrListeners' = stderrListeners \cup {"stdErrTracker"}
  /\ stdoutFlowing' = TRUE
  /\ stderrFlowing' = TRUE
  /\ UNCHANGED <<errorListeners, exitListeners, preLaunchBuffer>>

\* discardStdio that resumes only the stream it listens to.
discardStdio_ResumesStderrOnly ==
  /\ routers' = Append(routers, "discardStdio")
  /\ preLaunchBuffer' = Some(<<>>)
  /\ stderrListeners' = stderrListeners \cup {"errLineReader"}
  /\ errorListeners' = errorListeners \cup {"discardStdio"}
  /\ exitListeners' = exitListeners \cup {"discardStdio"}
  /\ stderrFlowing' = TRUE
  /\ UNCHANGED <<stdoutListeners, stdoutFlowing>>

\* discardStdio: the buffer starts as [], errLineReader listens on stderr,
\* 'error' and 'exit' handlers are registered, both streams are resumed.
discardStdio ==
  /\ routers' = Append(routers, "discardStdio")
  /\ preLaunchBuffer' = Some(<<>>)
  /\ stderrListeners' = stderrListeners \cup {"errLineReader"}
  /\ errorListeners' = errorListeners \cup {"discardStdio"}
  /\ exitListeners' = exitListeners \cup {"discardStdio"}
  /\ stdoutFlowing' = TRUE
  /\ stderrFlowing' = TRUE
  /\ UNCHANGED stdoutListeners

\* launchProgram with the outputCapture test inverted.
launchProgram_Inverted ==
  /\ pc = "idle"
  /\ pc' = "launched"
  /\ LET t == formatArguments(binary, getNodeLaunchArgs(config), config.cwd)
     IN  /\ sink' = Append(sink, [category |-> "console",
                                  output |-> Join(<<t.executable>> \o t.args, " ") \o "\n"])
         /\ invocation' = <<t>>
  /\ IF config.outputCapture # OutputSourceConsole
     THEN discardStdio
     ELSE captureStdio
  /\ UNCHANGED <<canLaunchResult, platform, binary, config, trackerPending, stderrEmitted,
                 stderrSeen, stdoutEmitted, exits, errors>>

\* launchProgram that echoes the command as stdout output.
launchProgram_EchoAsStdout ==
  /\ pc = "idle"
  /\ pc' = "launched"
  /\ LET t == formatArguments(binary, getNodeLaunchArgs(config), config.cwd)
     IN  /\ sink' = Append(sink, [category |-> "stdout",
                                  output |-> Join(<<t.executable>> \o t.args, " ") \o "\n"])
         /\ invocation' = <<t>>
  /\ IF config.outputCapture = OutputSourceConsole
     THEN discardStdio
     ELSE captureStdio
  /\ UNCHANGED <<canLaunchResult, platform, binary, config, trackerPending, stderrEmitted,
                 stderrSeen, stdoutEmitted, exits, errors>>

\* launchProgram: normalise, echo the command, spawn, attach one router.
launchProgram ==
  /\ pc = "idle"
  /\ pc' = "launched"
  /\ LET t == formatArguments(binary, getNodeLaunchArgs(config), config.cwd)
     IN  /\ sink' = Append(sink, [category |-> "console",
                                  output |-> Join(<<t.executable>> \o t.args, " ") \o "\n"])
         /\ invocation' = <<t>>
  /\ IF config.outputCapture = OutputSourceConsole
     THEN discardStdio
     ELSE captureStdio
  /\ UNCHANGED <<canLaunchResult, platform, binary, config, trackerPending, stderrEmitted,
                 stderrSeen, stdoutEmitted, exits, errors>>

\* Array.prototype.reverse.
RECURSIVE Reverse(_)
Reverse(list) ==
  IF Len(list) = 0 THEN <<>>
  ELSE Append(Reverse(Tail(list)), list[1])

\* dumpFilter that concatenates the buffered chunks newest first.
dumpFilter_NewestFirst ==
  IF preLaunchBuffer # Undefined
  THEN <<[category |-> "stderr",
          output |-> BufferToString(BufferConcat(Reverse(preLaunchBuffer[1])))]>>
  ELSE <<>>

\* dumpFilter: the events it passes to dap.output (none once the buffer is gone).
dumpFilter ==
  IF preLaunchBuffer # Undefined
  THEN <<[category |-> "stderr",
          output |-> BufferToString(BufferConcat(preLaunchBuffer[1]))]>>
  ELSE <<>>

\* errLineReader that ignores a marker chunk instead of resolving the buffer.
errLineReader_IgnoresMarker(data) ==
  IF Includes(data, delimiter)
  THEN UNCHANGED <<preLaunchBuffer, stderrListeners>>
  ELSE IF preLaunchBuffer # Undefined
  THEN /\ preLaunchBuffer' = Some(Append(preLaunchBuffer[1], data))
       /\ UNCHANGED stderrListeners
  ELSE UNCHANGED <<preLaunchBuffer, stderrListeners>>

\* errLineReader that empties the buffer at the marker instead of dropping it.
errLineReader_EmptiesBuffer(data) ==
  IF Includes(data, delimiter)
  THEN /\ preLaunchBuffer' = Some(<<>>)
       /\ stderrListeners' = stderrListeners \ {"errLineReader"}
  ELSE IF preLaunchBuffer # Undefined
  THEN /\ preLaunchBuffer' = Some(Append(preLaunchBuffer[1], data))
       /\ UNCHANGED stderrListeners
  ELSE UNCHANGED <<preLaunchBuffer, stderrListeners>>

\* errLineReader that looks for the marker in the buffered bytes plus the chunk.
errLineReader_ScansAcrossChunks(data) ==
  IF Includes((IF preLaunchBuffer # Undefined
               THEN BufferConcat(preLaunchBuffer[1]) ELSE <<>>) \o data,
              delimiter)
  THEN /\ preLaunchBuffer' = Undefined
       /\ stderrListeners' = stderrListeners \ {"errLineReader"}
  ELSE IF preLaunchBuffer # Undefined
  THEN /\ preLaunchBuffer' = Some(Append(preLaunchBuffer[1], data))
       /\ UNCHANGED stderrListeners
  ELSE UNCHANGED <<preLaunchBuffer, stderrListeners>>

\* errLineReader, the stderr 'data' listener of discardStdio.
errLineReader(data) ==
  IF Includes(data, delimiter)
  THEN /\ preLaunchBuffer' = Undefined
       /\ stderrListeners' = stderrListeners \ {"errLineReader"}
  ELSE IF preLaunchBuffer # Undefined
  THEN /\ preLaunchBuffer' = Some(Append(preLaunchBuffer[1], data))
       /\ UNCHANGED stderrListeners
  ELSE UNCHANGED <<preLaunchBuffer, stderrListeners>>

\* An 'error' handler that reports only while the buffer is still present.
onError_SilentOnceDiscarded(err) ==
  IF preLaunchBuffer # Undefined
  THEN sink' = sink \o dumpFilter
                 \o <<[category |-> "stderr",
                       output |-> IF err.stack # "" THEN err.stack ELSE err.message]>>
  ELSE UNCHANGED sink

\* The 'error' handler of discardStdio.
onError(err) ==
  sink' = sink \o dumpFilter
            \o <<[category |-> "stderr",
                  output |-> IF err.stack # "" THEN err.stack ELSE err.message]>>

\* An 'exit' handler that tests code >= 0 instead of code > 0.
onExit_ReportsZero(code) ==
  IF code # Undefined /\ code[1] >= 0
  THEN sink' = sink \o dumpFilter
                 \o <<[category |-> "stderr",
                       output |-> "Process exited with code "
                                    \o NumberToString(code[1]) \o "\r\n"]>>
  ELSE UNCHANGED sink

\* An 'exit' handler that tests code !== 0 instead of code > 0.
onExit_ReportsNonZero(code) ==
  IF code # Undefined /\ code[1] # 0
  THEN sink' = sink \o dumpFilter
                 \o <<[category |-> "stderr",
                       output |-> "Process exited with code "
                                    \o NumberToString(code[1]) \o "\r\n"]>>
  ELSE UNCHANGED sink

\* The 'exit' handler of discardStdio.
onExit(code) ==
  IF code # Undefined /\ code[1] > 0
  THEN sink' = sink \o dumpFilter
                 \o <<[category |-> "stderr",
                       output |-> "Process exited with code "
                                    \o NumberToString(code[1]) \o "\r\n"]>>
  ELSE UNCHANGED sink

-----------------------------------------------------------------------------
(* The child process: its streams and events call the listeners.           *)

\* Number of events the child has delivered so far.
Delivered == Len(stderrEmitted) + stdoutEmitted + Len(errors) + Len(exits)

\* child.stderr emits 'data'.
StderrData(data) ==
  /\ pc = "launched"
  /\ stderrFlowing
  /\ Delivered < MaxEvents
  /\ stderrEmitted' = Append(stderrEmitted, data)
  /\ IF "errLineReader" \in stderrListeners
     THEN /\ errLineReader(data)
          /\ stderrSeen' = Append(stderrSeen, data)
          /\ UNCHANGED <<sink, trackerPending>>
     ELSE IF "stdErrTracker" \in stderrListeners
     THEN /\ consumeStdStreamData("stderr", data)
          /\ UNCHANGED <<preLaunchBuffer, stderrListeners, stderrSeen>>
     ELSE UNCHANGED <<preLaunchBuffer, stderrListeners, stderrSeen, sink,
                      trackerPending>>
  /\ UNCHANGED <<canLaunchResult, platform, binary, config, pc, invocation, routers,
                 stdoutListeners, errorListeners, exitListeners, stdoutFlowing,
                 stderrFlowing, stdoutEmitted, exits, errors>>

\* child.stdout emits 'data'.
StdoutData(data) ==
  /\ pc = "launched"
  /\ stdoutFlowing
  /\ Delivered < MaxEvents
  /\ stdoutEmitted' = stdoutEmitted + 1
  /\ IF "stdOutTracker" \in stdoutListeners
     THEN consumeStdStreamData("stdout", data)
     ELSE UNCHANGED <<sink, trackerPending>>
  /\ UNCHANGED <<canLaunchResult, platform, binary, config, pc, invocation, routers,
                 stdoutListeners, stderrListeners, errorListeners, exitListeners,
                 stdoutFlowing, stderrFlowing, preLaunchBuffer, stderrEmitted,
                 stderrSeen, exits, errors>>

\* An 'error' event whose flush resolves the buffer.
ChildError_ResolvesBuffer(err) ==
  /\ pc = "launched"
  /\ Delivered < MaxEvents
  /\ errors' = Append(errors, err)
  /\ preLaunchBuffer' = Undefined
  /\ IF "discardStdio" \in errorListeners
     THEN onError(err)
     ELSE UNCHANGED sink
  /\ UNCHANGED <<canLaunchResult, platform, binary, config, pc, invocation, routers,
                 stdoutListeners, stderrListeners, errorListeners, exitListeners,
                 stdoutFlowing, stderrFlowing, trackerPending,
                 stderrEmitted, stderrSeen, stdoutEmitted, exits>>

\* child emits 'error'.
ChildError(err) ==
  /\ pc = "launched"
  /\ Delivered < MaxEvents
  /\ errors' = Append(errors, err)
  /\ IF "discardStdio" \in errorListeners
     THEN onError(err)
     ELSE UNCHANGED sink
  /\ UNCHANGED <<canLaunchResult, platform, binary, config, pc, invocation, routers,
                 stdoutListeners, stderrListeners, errorListeners, exitListeners,
                 stdoutFlowing, stderrFlowing, preLaunchBuffer, trackerPending,
                 stderrEmitted, stderrSeen, stdoutEmitted, exits>>

\* child emits 'exit' (at most once).
ChildExit(code) ==
  /\ pc = "launched"
  /\ Delivered < MaxEvents
  /\ exits = <<>>
  /\ exits' = <<code>>
  /\ IF "discardStdio" \in exitListeners
     THEN onExit(code)
     ELSE UNCHANGED sink
  /\ UNCHANGED <<canLaunchResult, platform, binary, config, pc, invocation, routers,
                 stdoutListeners, stderrListeners, errorListeners, exitListeners,
                 stdoutFlowing, stderrFlowing, preLaunchBuffer, trackerPending,
                 stderrEmitted, stderrSeen, stdoutEmitted, errors>>

-----------------------------------------------------------------------------
(* Specifications.                                                         *)

InitChild ==
  /\ pc = "idle"
  /\ invocation = <<>>
  /\ routers = <<>>
  /\ stdoutListeners = {}
  /\ stderrListeners = {}
  /\ errorListeners = {}
  /\ exitListeners = {}
  /\ stdoutFlowing = FALSE
  /\ stderrFlowing = FALSE
  /\ preLaunchBuffer = Undefined
  /\ trackerPending = [stdout |-> <<>>, stderr |-> <<>>]
  /\ sink = <<>>
  /\ stderrEmitted = <<>>
  /\ stderrSeen = <<>>
  /\ stdoutEmitted = 0
  /\ exits = <<>>
  /\ errors = <<>>
  /\ canLaunchResult = <<>>

\* One launch, followed through the events of its child.
Init ==
  /\ platform \in LaunchPlatforms
  /\ binary \in LaunchBinaries
  /\ config \in [console : {"internalConsole"}, outputCapture : OutputSources,
                 cwd : {"c:\\w"}, args : LaunchArgLists]
  /\ InitChild

Next ==
  \/ launchProgram
  \/ \E data \in Chunks : StderrData(data)
  \/ \E data \in StdoutChunks : StdoutData(data)
  \/ \E err \in Errors : ChildError(err)
  \/ \E code \in ExitCodes : ChildExit(code)

Spec == Init /\ [][Next]_vars

\* formatArguments applied to every input of the pools.
InitFormat ==
  /\ platform \in {"win32", "linux"}
  /\ binary \in Executables
  /\ config \in [console : {"internalConsole"}, outputCapture : {"std"},
                 cwd : Cwds, args : ArgLists]
  /\ InitChild

FormatArguments ==
  /\ pc = "idle"
  /\ pc' = "formatted"
  /\ invocation' = <<formatArguments(binary, getNodeLaunchArgs(config), config.cwd)>>
  /\ UNCHANGED <<canLaunchResult, platform, binary, config, routers, stdoutListeners,
                 stderrListeners, errorListeners, exitListeners, stdoutFlowing,
                 stderrFlowing, preLaunchBuffer, trackerPending, sink,
                 stderrEmitted, stderrSeen, stdoutEmitted, exits, errors>>

NextFormat == FormatArguments

SpecFormat == InitFormat /\ [][NextFormat]_vars

\* canLaunch asked about every configuration of the pools.
CanLaunchConsoles == ConsoleModes \cup {"", "InternalConsole"}

InitCanLaunch ==
  /\ platform \in {"win32", "linux"}
  /\ binary \in LaunchBinaries
  /\ config \in [console : CanLaunchConsoles, outputCapture : OutputSources,
                 cwd : Cwds, args : ArgLists]
  /\ InitChild

CanLaunch ==
  /\ pc = "idle"
  /\ pc' = "asked"
  /\ canLaunchResult' = <<canLaunch(config)>>
  /\ UNCHANGED <<platform, binary, config, invocation, routers,
                 stdoutListeners, stderrListeners, errorListeners, exitListeners,
                 stdoutFlowing, stderrFlowing, preLaunchBuffer, trackerPending,
                 sink, stderrEmitted, stderrSeen, stdoutEmitted, exits, errors>>

NextCanLaunch == CanLaunch

SpecCanLaunch == InitCanLaunch /\ [][NextCanLaunch]_vars

-----------------------------------------------------------------------------
(* Vocabulary of the properties.                                           *)

\* The launch attached the discard router / the capture router.
OnDiscardPath == routers = <<"discardStdio">>

OnCapturePath == routers = <<"captureStdio">>

\* The bytes of the attach marker.
MarkerBytes == BufferFrom("Debugger attached.")

ContainsMarker(chunk) == Includes(chunk, MarkerBytes)

\* errLineReader has been handed a chunk containing the marker.
MarkerSeen == \E i \in 1..Len(stderrSeen) : ContainsMarker(stderrSeen[i])

\* child.stderr has emitted a chunk containing the marker.
MarkerEmitted == \E i \in 1..Len(stderrEmitted) : ContainsMarker(stderrEmitted[i])

\* The texts of the error reports and of the exit-code reports.
ErrorReports == {"Error: spawn node ENOENT", "kill EPERM"}

ExitReports ==
  {"Process exited with code 1\r\n", "Process exited with code 12\r\n"}

ExitReportOf(n) ==
  IF n = 1 THEN "Process exited with code 1\r\n"
  ELSE "Process exited with code 12\r\n"

StderrEvent(text) == [category |-> "stderr", output |-> text]

\* A stderr event that is neither an error report nor an exit-code report:
\* on the discard path, an event written by dumpFilter.
IsFlush(e) ==
  /\ e.category = "stderr"
  /\ e.output \notin (ErrorReports \cup ExitReports)

Flushes == {i \in 1..Len(sink) : IsFlush(sink[i])}

\* The text of all chunks errLineReader has received, in arrival order.
ReceivedText == BufferToString(BufferConcat(stderrSeen))

IsPrefix(s, t) == Len(s) <= Len(t) /\ s = SubSeq(t, 1, Len(s))

\* This step is the child's 'error' event / 'exit' event.
ErrorStep == Len(errors') = Len(errors) + 1

ExitStep == exits = <<>> /\ exits' # <<>>

PositiveExit(code) == code # Undefined /\ code[1] > 0

TypeOK ==
  /\ pc \in {"idle", "launched", "formatted", "asked"}
  /\ Len(invocation) <= 1
  /\ Delivered <= MaxEvents
  /\ Len(exits) <= 1

-----------------------------------------------------------------------------
(* C1 - discard path, chunks "starting...", "Debugger attached.",          *)
(* "late noise" in this order: whenever events reach the sink, the only    *)
(* chunk content among them is "starting..."; neither the marker chunk nor *)
(* "late noise" is ever flushed or forwarded.                              *)

C1_Scenario ==
  <<BufferFrom("starting..."), BufferFrom("Debugger attached."),
    BufferFrom("late noise")>>

C1_OnlyStartingFlushed ==
  (OnDiscardPath /\ IsPrefix(stderrEmitted, C1_Scenario)) =>
    /\ \A i \in 1..Len(sink) :
         /\ ~Includes(sink[i].output, "late noise")
         /\ ~Includes(sink[i].output, "Debugger attached.")
    /\ \A i \in Flushes : sink[i].output \in {"", "starting..."}

\* All three chunks were emitted and "starting..." was flushed on the way.
C1_Witness ==
  /\ OnDiscardPath
  /\ stderrEmitted = C1_Scenario
  /\ \E i \in Flushes : sink[i].output = "starting..."
  /\ errors # <<>>

-----------------------------------------------------------------------------
(* C2 - discard path: when the first failure is an 'error' event that      *)
(* arrives before any marker chunk, the accumulated buffer is flushed      *)
(* right before the error message, and in the whole run that buffered      *)
(* content is flushed exactly once.                                        *)

C2_FlushedExactlyOnce ==
  (/\ OnDiscardPath
   /\ Len(sink) >= 3
   /\ IsFlush(sink[2])
   /\ sink[2].output # ""
   /\ sink[3].output \in ErrorReports) =>
    Cardinality({i \in Flushes : Includes(sink[i].output, sink[2].output)}) = 1

-----------------------------------------------------------------------------
(* C3 - discard path: once errLineReader has received a chunk containing   *)
(* the marker, the buffer is absent and stays absent, the stderr listener  *)
(* is gone, no later chunk reaches errLineReader, and every later 'error'  *)
(* or 'exit' event adds at most its own report to the sink, never a flush. *)

C3_DiscardedIsTerminal ==
  [][/\ MarkerSeen' =>
          /\ preLaunchBuffer' = Undefined
          /\ "errLineReader" \notin stderrListeners'
     /\ MarkerSeen =>
          /\ MarkerSeen'
          /\ stderrSeen' = stderrSeen
          /\ \/ sink' = sink
             \/ /\ ErrorStep \/ ExitStep
                /\ Len(sink') = Len(sink) + 1
                /\ SubSeq(sink', 1, Len(sink)) = sink
                /\ sink'[Len(sink')].output \in (ErrorReports \cup ExitReports)]_vars

\* After the marker: a chunk the router no longer saw, an error and a
\* positive exit, each of which added just its report.
C3_Witness ==
  /\ OnDiscardPath
  /\ MarkerSeen
  /\ Len(stderrEmitted) > Len(stderrSeen)
  /\ Len(stderrSeen) = 1
  /\ Len(errors) = 1
  /\ exits = <<Some(1)>>
  /\ Len(sink) = 3

-----------------------------------------------------------------------------
(* C4 - discard path: an 'exit' event with a positive code and no marker   *)
(* chunk before it appends the flushed buffer and then the exit-code       *)
(* report "Process exited with code N", both as stderr events; an 'exit'   *)
(* event with code 0 appends nothing.                                      *)

C4_ExitReporting ==
  [][(OnDiscardPath /\ ExitStep) =>
       /\ (PositiveExit(exits'[1]) /\ ~MarkerSeen) =>
            sink' = sink \o <<StderrEvent(ReceivedText),
                              StderrEvent(ExitReportOf(exits'[1][1]))>>
       /\ exits'[1] = Some(0) => sink' = sink]_vars

\* Two chunks were buffered, then the child exited with code 12.
C4_Witness ==
  /\ OnDiscardPath
  /\ ~MarkerSeen
  /\ Len(stderrSeen) = 2
  /\ exits = <<Some(12)>>
  /\ errors = <<>>
  /\ Len(sink) = 3
  /\ sink[2] = StderrEvent(ReceivedText)
  /\ sink[3] = StderrEvent("Process exited with code 12\r\n")

-----------------------------------------------------------------------------
(* C5 - every launch, either router: each 'error' event and each 'exit'    *)
(* with a positive code adds an event to the output sink.                  *)

C5_FailuresReachSink ==
  [][(ErrorStep \/ (ExitStep /\ PositiveExit(exits'[1]))) =>
       Len(sink') > Len(sink)]_vars

-----------------------------------------------------------------------------
(* C6 - discard path, no marker chunk, exit with a positive code: every    *)
(* chunk errLineReader received appears in a flushed stderr event,         *)
(* whether it arrived before or after the 'exit' event.                    *)

C6_EveryChunkSurfaced ==
  (/\ OnDiscardPath
   /\ ~MarkerEmitted
   /\ exits # <<>>
   /\ PositiveExit(exits[1])) =>
    \A k \in 1..Len(stderrSeen) :
      \E i \in Flushes : Includes(sink[i].output, BufferToString(stderrSeen[k]))

-----------------------------------------------------------------------------
(* C7 - a launch attaches exactly one router: discardStdio when            *)
(* config.outputCapture is OutputSource.Console, captureStdio otherwise;   *)
(* the listeners of the two routers are never mixed.                       *)

C7_ExactlyOneRouter ==
  /\ pc = "idle" => routers = <<>>
  /\ pc = "launched" =>
       /\ Len(routers) = 1
       /\ (config.outputCapture = "console") <=> (routers[1] = "discardStdio")
       /\ (config.outputCapture # "console") <=> (routers[1] = "captureStdio")
       /\ routers[1] = "discardStdio" =>
            /\ stdoutListeners = {}
            /\ stderrListeners \subseteq {"errLineReader"}
            /\ errorListeners = {"discardStdio"}
            /\ exitListeners = {"discardStdio"}
       /\ routers[1] = "captureStdio" =>
            /\ stdoutListeners = {"stdOutTracker"}
            /\ stderrListeners = {"stdErrTracker"}
            /\ errorListeners = {}
            /\ exitListeners = {}
            /\ preLaunchBuffer = Undefined

C7_Witness ==
  /\ pc = "launched"
  /\ config.outputCapture = "console"
  /\ routers = <<"discardStdio">>
  /\ stderrListeners = {"errLineReader"}

-----------------------------------------------------------------------------
(* Vocabulary of the formatArguments properties.                           *)

HasSpace(s) == \E i \in 1..Len(s) : SubSeq(s, i, i) = " "

DoubleQuoted(s) == "\"" \o s \o "\""

\* The executable after the Windows path-case and .ps1 rewrites.
RewrittenExecutable ==
  IF EndsWith(binary, ".ps1") THEN "powershell.exe"
  ELSE platformPathToPreferredCase(binary)

Formatted == pc = "formatted" /\ platform = "win32"

-----------------------------------------------------------------------------
(* C8 - Windows, the rewritten executable contains a space and some        *)
(* argument contains a space: shell is true, the executable is wrapped in  *)
(* double quotes, each argument with a space is wrapped in double quotes,  *)
(* every other argument is unchanged, count and order are preserved.       *)

C8_QuotedWhenBothHaveSpaces ==
  (/\ Formatted
   /\ HasSpace(RewrittenExecutable)
   /\ \E i \in 1..Len(config.args) : HasSpace(config.args[i])) =>
    /\ invocation[1].shell = TRUE
    /\ invocation[1].executable = DoubleQuoted(RewrittenExecutable)
    /\ Len(invocation[1].args) = Len(config.args)
    /\ \A i \in 1..Len(config.args) :
         invocation[1].args[i] =
           IF HasSpace(config.args[i]) THEN DoubleQuoted(config.args[i])
           ELSE config.args[i]

C8_Witness ==
  /\ Formatted
  /\ binary = "C:\\a b\\x.exe"
  /\ config.args = <<"my arg", "--flag">>
  /\ invocation[1].executable = "\"C:\\a b\\x.exe\""
  /\ invocation[1].args = <<"\"my arg\"", "--flag">>
  /\ invocation[1].shell = TRUE

-----------------------------------------------------------------------------
(* C9 - Windows, the executable path contains a space and no argument      *)
(* does: shell is false, the executable is not quoted and the arguments    *)
(* are the ones passed in.                                                 *)

C9_Original ==
  (/\ Formatted
   /\ HasSpace(binary)
   /\ \A i \in 1..Len(config.args) : ~HasSpace(config.args[i])) =>
    /\ invocation[1].shell = FALSE
    /\ invocation[1].executable = platformPathToPreferredCase(binary)
    /\ invocation[1].args = config.args

\* C9 as amended: the executable meant is the one after the .ps1 rewrite.
C9_UnquotedWithoutArgSpace ==
  (/\ Formatted
   /\ HasSpace(RewrittenExecutable)
   /\ \A i \in 1..Len(config.args) : ~HasSpace(config.args[i])) =>
    /\ invocation[1].shell = FALSE
    /\ invocation[1].executable = platformPathToPreferredCase(binary)
    /\ invocation[1].args = config.args

C9_Witness ==
  /\ Formatted
  /\ binary = "C:\\a b\\x.exe"
  /\ config.args = <<"--flag">>
  /\ invocation[1].executable = "C:\\a b\\x.exe"
  /\ invocation[1].args = <<"--flag">>
  /\ invocation[1].shell = FALSE

-----------------------------------------------------------------------------
(* C10 - Windows, executable path ending in ".ps1": the result is          *)
(* "powershell.exe" with arguments "-File", the original path, then the    *)
(* original arguments.                                                     *)

C10_Original ==
  (Formatted /\ EndsWith(binary, ".ps1")) =>
    /\ invocation[1].executable = "powershell.exe"
    /\ invocation[1].args = <<"-File", binary>> \o config.args

\* C10 as amended: the path after "-File" is the path in preferred case.
C10_PowershellRewrite ==
  (Formatted /\ EndsWith(binary, ".ps1")) =>
    /\ invocation[1].executable = "powershell.exe"
    /\ invocation[1].args =
         <<"-File", platformPathToPreferredCase(binary)>> \o config.args

C10_Witness ==
  /\ Formatted
  /\ binary = "c:\\s.ps1"
  /\ config.args = <<"my arg">>
  /\ invocation[1].executable = "powershell.exe"
  /\ invocation[1].args = <<"-File", "C:\\s.ps1", "my arg">>
  /\ invocation[1].shell = FALSE

-----------------------------------------------------------------------------
(* C11 - off Windows, whatever the input (spaces, ".ps1" included):        *)
(* formatArguments returns the executable, the arguments and the working   *)
(* directory it was given, and shell is false.                             *)

C11_PassThroughOffWindows ==
  (pc = "formatted" /\ platform # "win32") =>
    /\ invocation[1].executable = binary
    /\ invocation[1].args = config.args
    /\ invocation[1].cwd = config.cwd
    /\ invocation[1].shell = FALSE

C11_Witness ==
  /\ pc = "formatted"
  /\ platform = "linux"
  /\ binary = "c:\\s.ps1"
  /\ config.args = <<"my arg", "x.js">>
  /\ config.cwd = "c:\\w"
  /\ invocation[1] = [executable |-> "c:\\s.ps1", args |-> <<"my arg", "x.js">>,
                      shell |-> FALSE, cwd |-> "c:\\w"]

-----------------------------------------------------------------------------
(* C12 - canLaunch returns true exactly when config.console is             *)
(* "internalConsole", false for every other value, and changes nothing     *)
(* else.                                                                   *)

C12_CanLaunchIffInternalConsole ==
  [][pc' = "asked" =>
       /\ canLaunchResult' = <<config.console = "internalConsole">>
       /\ config.console \in {"integratedTerminal", "externalTerminal", "",
                              "InternalConsole"} => canLaunchResult' = <<FALSE>>
       /\ UNCHANGED <<platform, binary, config, invocation, routers,
                      stdoutListeners, stderrListeners, errorListeners,
                      exitListeners, stdoutFlowing, stderrFlowing,
                      preLaunchBuffer, trackerPending, sink, stderrEmitted,
                      stderrSeen, stdoutEmitted, exits, errors>>]_vars

C12_Witness ==
  /\ pc = "asked"
  /\ config.console = "integratedTerminal"
  /\ canLaunchResult = <<FALSE>>
  /\ sink = <<>>

-----------------------------------------------------------------------------
(* C13 - discard path: an 'exit' event with code 0, null or a negative     *)
(* code adds nothing to the sink and leaves the buffer as it is, whether   *)
(* the router is still buffering or has discarded, whatever is buffered.   *)

C13_SilentExit ==
  [][(OnDiscardPath /\ ExitStep /\ ~PositiveExit(exits'[1])) =>
       /\ exits'[1] \in {Undefined, Some(0), Some(-1)}
       /\ sink' = sink
       /\ preLaunchBuffer' = preLaunchBuffer]_vars

\* Two chunks are buffered and the child exited with code -1: only the
\* command echo is in the sink.
C13_Witness ==
  /\ OnDiscardPath
  /\ ~MarkerSeen
  /\ Len(stderrSeen) = 2
  /\ exits = <<Some(-1)>>
  /\ errors = <<>>
  /\ Len(sink) = 1
  /\ preLaunchBuffer = Some(stderrSeen)

-----------------------------------------------------------------------------
(* C14 - discard path: every 'error' event appends the error's stack, or   *)
(* its message when it has no stack, as a stderr event, in both states;    *)
(* once discarded that is the only event it appends.                       *)

ErrorTextOf(err) ==
  IF err.message = "kill EPERM" THEN "kill EPERM"
  ELSE "Error: spawn node ENOENT"

C14_ErrorAlwaysReported ==
  [][(OnDiscardPath /\ ErrorStep) =>
       /\ Len(sink') > Len(sink)
       /\ sink'[Len(sink')] = StderrEvent(ErrorTextOf(errors'[Len(errors')]))
       /\ MarkerSeen =>
            sink' = Append(sink, StderrEvent(ErrorTextOf(errors'[Len(errors')])))
       /\ ~MarkerSeen => Len(sink') = Len(sink) + 2]_vars

\* After the marker, an error with a stack and one without were reported,
\* one event each.
C14_Witness ==
  /\ OnDiscardPath
  /\ MarkerSeen
  /\ Len(stderrSeen) = 1
  /\ Len(errors) = 2
  /\ errors[1].stack # ""
  /\ errors[2].stack = ""
  /\ Len(sink) = 3
  /\ sink[2] = StderrEvent("Error: spawn node ENOENT")
  /\ sink[3] = StderrEvent("kill EPERM")

-----------------------------------------------------------------------------
(* C15 - discard path, still buffering: an 'error' event or an 'exit'      *)
(* with a positive code appends exactly two stderr events, first the text  *)
(* of all buffered chunks in arrival order ("" when none), then the error  *)
(* message or exit-code report.                                            *)

C15_FlushThenReport ==
  [][(/\ OnDiscardPath
      /\ ~MarkerSeen
      /\ ErrorStep \/ (ExitStep /\ PositiveExit(exits'[1]))) =>
       /\ Len(sink') = Len(sink) + 2
       /\ SubSeq(sink', 1, Len(sink)) = sink
       /\ sink'[Len(sink) + 1] = StderrEvent(ReceivedText)
       /\ sink'[Len(sink) + 2].category = "stderr"
       /\ sink'[Len(sink) + 2].output =
            IF ErrorStep THEN ErrorTextOf(errors'[Len(errors')])
            ELSE ExitReportOf(exits'[1][1])]_vars

\* An error before any chunk flushed "", and an error after two chunks
\* flushed both in arrival order.
C15_Witness ==
  /\ OnDiscardPath
  /\ ~MarkerSeen
  /\ stderrSeen = <<BufferFrom("starting..."), BufferFrom("late noise")>>
  /\ Len(errors) = 2
  /\ exits = <<>>
  /\ Len(sink) = 5
  /\ sink[2] = StderrEvent("")
  /\ sink[4] = StderrEvent("starting...late noise")

-----------------------------------------------------------------------------
(* C16 - a launch emits exactly one "console" event, the command echo,     *)
(* and it is the first event of the sink; on the discard path every other  *)
(* event has category "stderr" and stdout data adds no event.              *)

C16_OneConsoleEchoFirst ==
  [][/\ pc' = "idle" => sink' = <<>>
     /\ pc' = "launched" =>
          /\ Len(sink') >= 1
          /\ sink'[1].category = "console"
          /\ \A i \in 2..Len(sink') : sink'[i].category # "console"
          /\ OnDiscardPath' =>
               \A i \in 2..Len(sink') : sink'[i].category = "stderr"
     /\ (OnDiscardPath /\ stdoutEmitted' # stdoutEmitted) => sink' = sink]_vars

\* Discard path: stdout delivered a chunk, an error flushed a chunk; the
\* sink holds the echo and two stderr events.
C16_Witness ==
  /\ OnDiscardPath
  /\ stdoutEmitted = 1
  /\ Len(stderrSeen) = 1
  /\ Len(errors) = 1
  /\ Len(sink) = 3
  /\ sink[1] = [category |-> "console",
                output |-> "\"C:\\a b\\x.exe\" \"my arg\"\n"]
  /\ sink[2].category = "stderr"
  /\ sink[3].category = "stderr"

-----------------------------------------------------------------------------
(* C17 - after launchProgram both child.stdout and child.stderr have been  *)
(* resumed, whichever router was attached; on the discard path stdout has  *)
(* no listener at all, and removing errLineReader at the marker leaves     *)
(* stdout as it was.                                                       *)

C17_BothStreamsResumed ==
  [][/\ pc' = "launched" =>
          /\ stdoutFlowing'
          /\ stderrFlowing'
          /\ OnDiscardPath' => stdoutListeners' = {}
     /\ (MarkerSeen' /\ ~MarkerSeen) =>
          /\ "errLineReader" \in stderrListeners
          /\ "errLineReader" \notin stderrListeners'
          /\ UNCHANGED <<stdoutListeners, stdoutFlowing, stderrFlowing>>]_vars

\* Discard path after the marker: stderr has lost its listener, both
\* streams still flow and stdout has delivered a chunk to nobody.
C17_Witness ==
  /\ OnDiscardPath
  /\ MarkerSeen
  /\ stderrListeners = {}
  /\ stdoutListeners = {}
  /\ stdoutFlowing
  /\ stderrFlowing
  /\ stdoutEmitted = 1

-----------------------------------------------------------------------------
(* C18 - discard path: an 'error' or 'exit' event leaves the buffer and    *)
(* the stderr listener as they are; only a stderr chunk changes the        *)
(* buffer; so while buffering each further 'error' or positive 'exit'      *)
(* flushes the whole accumulated content again.                            *)

C18_FlushKeepsBuffer ==
  [][OnDiscardPath =>
       /\ (ErrorStep \/ ExitStep) =>
            UNCHANGED <<preLaunchBuffer, stderrListeners, stderrSeen>>
       /\ preLaunchBuffer' # preLaunchBuffer =>
            Len(stderrSeen') = Len(stderrSeen) + 1
       /\ (~MarkerSeen /\ (ErrorStep \/ (ExitStep /\ PositiveExit(exits'[1])))) =>
            /\ preLaunchBuffer' = Some(stderrSeen)
            /\ Len(sink') > Len(sink)
            /\ sink'[Len(sink) + 1] = StderrEvent(ReceivedText)]_vars

\* One chunk, then two errors and a positive exit: the chunk was flushed
\* three times and is still buffered.
C18_Witness ==
  /\ OnDiscardPath
  /\ stderrSeen = <<BufferFrom("starting...")>>
  /\ Len(errors) = 2
  /\ exits = <<Some(1)>>
  /\ Len(sink) = 7
  /\ sink[2] = StderrEvent("starting...")
  /\ sink[4] = StderrEvent("starting...")
  /\ sink[6] = StderrEvent("starting...")
  /\ preLaunchBuffer = Some(<<BufferFrom("starting...")>>)
  /\ stderrListeners = {"errLineReader"}

-----------------------------------------------------------------------------
(* C19 - discard path: the buffer is dropped only by a single chunk that   *)
(* contains the whole marker; halves of the marker in consecutive chunks   *)
(* are both buffered and flushed by a later failure; the chunk with the    *)
(* marker is never buffered, so the bytes before the marker in it never    *)
(* reach the sink.                                                         *)

C19_WholeMarkerInOneChunk ==
  OnDiscardPath =>
    /\ IF MarkerSeen
       THEN preLaunchBuffer = Undefined
       ELSE preLaunchBuffer = Some(stderrSeen)
    /\ \A i \in 2..Len(sink) : ~Includes(sink[i].output, "ok ")
    /\ ~MarkerSeen =>
         \A i \in Flushes : IsPrefix(sink[i].output, ReceivedText)

\* The two halves of the marker arrived in consecutive chunks, were both
\* buffered, and an error flushed them as one text.
C19_Witness ==
  /\ OnDiscardPath
  /\ stderrSeen = <<BufferFrom("Debugger "), BufferFrom("attached.")>>
  /\ preLaunchBuffer = Some(stderrSeen)
  /\ stderrListeners = {"errLineReader"}
  /\ Len(errors) = 1
  /\ sink[2] = StderrEvent("Debugger attached.")

-----------------------------------------------------------------------------
(* C20 - Windows: the space test looks at the executable after the .ps1    *)
(* rewrite, so a .ps1 executable always gives shell = false and no quoted  *)
(* argument, the script path after "-File" included; and shell is true     *)
(* exactly when the returned executable is wrapped in double quotes.       *)

IsDoubleQuoted(s) ==
  /\ Len(s) >= 2
  /\ SubSeq(s, 1, 1) = "\""
  /\ SubSeq(s, Len(s), Len(s)) = "\""

C20_SpaceTestAfterRewrite ==
  Formatted =>
    /\ invocation[1].shell <=> IsDoubleQuoted(invocation[1].executable)
    /\ EndsWith(binary, ".ps1") =>
         /\ invocation[1].shell = FALSE
         /\ Len(invocation[1].args) = Len(config.args) + 2
         /\ \A i \in 1..Len(invocation[1].args) :
              ~IsDoubleQuoted(invocation[1].args[i])
         /\ \A i \in 1..Len(config.args) :
              invocation[1].args[i + 2] = config.args[i]

C20_Witness ==
  /\ Formatted
  /\ binary = "C:\\a b\\s.ps1"
  /\ config.args = <<"my arg">>
  /\ invocation[1].executable = "powershell.exe"
  /\ invocation[1].args = <<"-File", "C:\\a b\\s.ps1", "my arg">>
  /\ invocation[1].shell = FALSE

====
